---- MODULE Spec2Model ----
(***************************************************************************)
(* Role-gated stateful precompiles of subnet-evm-teleporter.               *)
(*                                                                         *)
(* Two resources are modelled:                                             *)
(*   - the Teleporter precompile (precompile/teleporter.go), whose         *)
(*     dispatch table holds the single reading handler testFunction;       *)
(*   - the contract deployer allow list (precompile/                       *)
(*     teleporter_allow_list.go), with the role setters setAdmin,          *)
(*     setEnabled, setNone and the reading handler readAllowList.          *)
(*                                                                         *)
(* Spec calls the handlers and Configure directly, DispatchSpec calls the  *)
(* contracts through Run with whole call data, StoreSpec adds the exported *)
(* accessors of the role tables, PackSpec packs and unpacks call data,     *)
(* EqualSpec compares upgrade configs and admin lists and ConstructSpec    *)
(* builds upgrade configs with the constructors and applies them.          *)
(*                                                                         *)
(* Bytes are naturals 0..255, byte strings are sequences of bytes, a       *)
(* common.Address is a 20-byte sequence and a common.Hash a 32-byte        *)
(* sequence.  The StateDB storage of a resource is kept as the function    *)
(* from the number of an account to the number its stored word encodes;    *)
(* GetState and SetState convert between the two at the storage boundary.  *)
(***************************************************************************)
EXTENDS Naturals, Sequences, FiniteSets

(* ------------------------------ bounds -------------------------------- *)

\* number of distinct accounts that call, are named in payloads and in configs
NumAccounts == 2
\* longest admin list of an upgrade config
MaxAdmins == 2
\* lines the diagnostic file test_precompile_output.txt may grow to
MaxFileLines == 1
\* largest activation timestamp of an upgrade config
MaxTimestamp == 1

(* -------------------------- program constants -------------------------- *)

\* common.HashLength, the value of teleporterAllowListInputLen / allowListInputLen
HashLength == 32
\* common.AddressLength, the width common.BytesToAddress crops to
AddressLength == 20
\* fixed gas cost of a reading handler
ReadAllowListGasCost == 5000
\* fixed gas cost of a role-setting handler
ModifyAllowListGasCost == 20000

(* ------------------------------- bytes -------------------------------- *)

Zeros(n) == [i \in 1..n |-> 0]

\* common.BigToHash(big.NewInt(n)) for n < 256: n as a big-endian 32-byte word
BigToHash(n) == Zeros(HashLength - 1) \o <<n>>

\* the 20-byte address of account number i
Account(i) == Zeros(AddressLength - 1) \o <<i>>

Accounts == {Account(i) : i \in 1..NumAccounts}

\* common.BytesToAddress: keeps the last 20 bytes of b, left-pads a shorter b
BytesToAddress(b) ==
    IF Len(b) > AddressLength
    THEN SubSeq(b, Len(b) - AddressLength + 1, Len(b))
    ELSE Zeros(AddressLength - Len(b)) \o b

\* common.BytesToHash: keeps the last 32 bytes of b, left-pads a shorter b
BytesToHash(b) ==
    IF Len(b) > HashLength
    THEN SubSeq(b, Len(b) - HashLength + 1, Len(b))
    ELSE Zeros(HashLength - Len(b)) \o b

\* common.Address.Hash: the storage key of an address
AddressHash(a) == BytesToHash(a)

(* ------------------------------- roles -------------------------------- *)

TeleporterAllowListNoRole == BigToHash(0)
TeleporterAllowListEnabled == BigToHash(1)
TeleporterAllowListAdmin == BigToHash(2)

Valid(s) ==
    s \in {TeleporterAllowListNoRole, TeleporterAllowListEnabled, TeleporterAllowListAdmin}

IsNoRole(s) == s = TeleporterAllowListNoRole

IsEnabled(s) == s \in {TeleporterAllowListAdmin, TeleporterAllowListEnabled}

\* variant of IsAdmin that accepts every role with access to the resource
IsAdminOrEnabled(s) == s \in {TeleporterAllowListAdmin, TeleporterAllowListEnabled}

IsAdmin(s) == s = TeleporterAllowListAdmin

(* ----------------------------- resources ------------------------------ *)

TeleporterAddress == "Teleporter"
TeleporterContractDeployerAllowListAddress == "ContractDeployerAllowList"

Resources == {TeleporterAddress, TeleporterContractDeployerAllowListAddress}

\* the number a 32-byte word encodes, for the words below 256
HashToBig(word) == word[HashLength]

\* the slot of a storage key: the number of the account it is the hash of
Slot(key) == key[HashLength]

Slots == 1..NumAccounts

\* StateDB.GetState: the word stored under key of the resource's storage
GetState(db, precompileAddr, key) == BigToHash(db[precompileAddr][Slot(key)])

\* StateDB.SetState: db with the word of key replaced
SetState(db, precompileAddr, key, word) ==
    [db EXCEPT ![precompileAddr][Slot(key)] = HashToBig(word)]

\* variant of teleporterGetAllowListStatus that answers Enabled for an account
\* without a stored role
GetStatusDefaultsToEnabled(db, precompileAddr, address) ==
    IF GetState(db, precompileAddr, AddressHash(address)) = TeleporterAllowListNoRole
    THEN TeleporterAllowListEnabled
    ELSE GetState(db, precompileAddr, AddressHash(address))

teleporterGetAllowListStatus(db, precompileAddr, address) ==
    GetState(db, precompileAddr, AddressHash(address))

\* variant of teleporterSetAllowListRole whose key does not depend on the
\* address: every account of a resource shares the key of account 1
SetAllowListRoleUnderOneKey(db, precompileAddr, address, role) ==
    SetState(db, precompileAddr, AddressHash(Account(1)), role)

\* variant of teleporterSetAllowListRole that stores the word one above the
\* role it is given
SetAllowListRoleOneAbove(db, precompileAddr, address, role) ==
    SetState(db, precompileAddr, AddressHash(address), BigToHash(HashToBig(role) + 1))

teleporterSetAllowListRole(db, precompileAddr, address, role) ==
    SetState(db, precompileAddr, AddressHash(address), role)

\* the exported accessors of the two role tables; the setters store the role
\* they are given without verifying it
GetTeleporterStatus(db, address) ==
    teleporterGetAllowListStatus(db, TeleporterAddress, address)

SetTeleporterStatus(db, address, role) ==
    teleporterSetAllowListRole(db, TeleporterAddress, address, role)

GetTeleporterContractDeployerAllowListStatus(db, address) ==
    teleporterGetAllowListStatus(db, TeleporterContractDeployerAllowListAddress, address)

SetTeleporterContractDeployerAllowListStatus(db, address, role) ==
    teleporterSetAllowListRole(db, TeleporterContractDeployerAllowListAddress, address, role)

(* ------------------------------ handlers ------------------------------ *)

\* deductGas: the budget left after paying requiredGas, or an out-of-gas error
deductGas(suppliedGas, requiredGas) ==
    IF suppliedGas < requiredGas
    THEN [remainingGas |-> 0, err |-> "OutOfGas"]
    ELSE [remainingGas |-> suppliedGas - requiredGas, err |-> "nil"]

\* what a handler hands back: error, output bytes (nil and the empty slice are
\* both the empty sequence), remaining gas, and the storage and the diagnostic
\* file as the handler leaves them
Result(err, ret, remainingGas, db, file) ==
    [err |-> err, ret |-> ret, remainingGas |-> remainingGas, db |-> db, file |-> file]

\* variant of the role setter that authorizes before it checks write protection
RoleSetterAuthorizesFirst(precompileAddr, role, db, file, callerAddr, input, suppliedGas, readOnly) ==
    LET g == deductGas(suppliedGas, ModifyAllowListGasCost) IN
    IF g.err # "nil" THEN Result("OutOfGas", <<>>, 0, db, file)
    ELSE IF Len(input) # HashLength
    THEN Result("MalformedInput", <<>>, g.remainingGas, db, file)
    ELSE IF ~IsAdmin(teleporterGetAllowListStatus(db, precompileAddr, callerAddr))
    THEN Result("Unauthorized", <<>>, g.remainingGas, db, file)
    ELSE IF readOnly
    THEN Result("WriteProtection", <<>>, g.remainingGas, db, file)
    ELSE Result("nil", <<>>, g.remainingGas,
                teleporterSetAllowListRole(db, precompileAddr, BytesToAddress(input), role),
                file)

\* variant of the role setter that refunds the gas of an unauthorized call
RoleSetterRefundsUnauthorized(precompileAddr, role, db, file, callerAddr, input, suppliedGas, readOnly) ==
    LET g == deductGas(suppliedGas, ModifyAllowListGasCost) IN
    IF g.err # "nil" THEN Result("OutOfGas", <<>>, 0, db, file)
    ELSE IF Len(input) # HashLength
    THEN Result("MalformedInput", <<>>, g.remainingGas, db, file)
    ELSE IF readOnly
    THEN Result("WriteProtection", <<>>, g.remainingGas, db, file)
    ELSE IF ~IsAdmin(teleporterGetAllowListStatus(db, precompileAddr, callerAddr))
    THEN Result("Unauthorized", <<>>, suppliedGas, db, file)
    ELSE Result("nil", <<>>, g.remainingGas,
                teleporterSetAllowListRole(db, precompileAddr, BytesToAddress(input), role),
                file)

\* variant of the role setter that looks the caller's role up in the table of
\* the Teleporter precompile
RoleSetterReadsTeleporterRole(precompileAddr, role, db, file, callerAddr, input, suppliedGas, readOnly) ==
    LET g == deductGas(suppliedGas, ModifyAllowListGasCost) IN
    IF g.err # "nil" THEN Result("OutOfGas", <<>>, 0, db, file)
    ELSE IF Len(input) # HashLength
    THEN Result("MalformedInput", <<>>, g.remainingGas, db, file)
    ELSE IF readOnly
    THEN Result("WriteProtection", <<>>, g.remainingGas, db, file)
    ELSE IF ~IsAdmin(teleporterGetAllowListStatus(db, TeleporterAddress, callerAddr))
    THEN Result("Unauthorized", <<>>, g.remainingGas, db, file)
    ELSE Result("nil", <<>>, g.remainingGas,
                teleporterSetAllowListRole(db, precompileAddr, BytesToAddress(input), role),
                file)

\* variant of the role setter that writes the role before it checks the
\* caller's role
RoleSetterWritesBeforeAuthorizing(precompileAddr, role, db, file, callerAddr, input, suppliedGas, readOnly) ==
    LET g == deductGas(suppliedGas, ModifyAllowListGasCost)
        written == teleporterSetAllowListRole(db, precompileAddr, BytesToAddress(input), role)
    IN
    IF g.err # "nil" THEN Result("OutOfGas", <<>>, 0, db, file)
    ELSE IF Len(input) # HashLength
    THEN Result("MalformedInput", <<>>, g.remainingGas, db, file)
    ELSE IF readOnly
    THEN Result("WriteProtection", <<>>, g.remainingGas, db, file)
    ELSE IF ~IsAdmin(teleporterGetAllowListStatus(db, precompileAddr, callerAddr))
    THEN Result("Unauthorized", <<>>, g.remainingGas, written, file)
    ELSE Result("nil", <<>>, g.remainingGas, written, file)

\* variant of the role setter that gives the role to the caller as well as to
\* the account the payload names
RoleSetterWritesCallerToo(precompileAddr, role, db, file, callerAddr, input, suppliedGas, readOnly) ==
    LET g == deductGas(suppliedGas, ModifyAllowListGasCost) IN
    IF g.err # "nil" THEN Result("OutOfGas", <<>>, 0, db, file)
    ELSE IF Len(input) # HashLength
    THEN Result("MalformedInput", <<>>, g.remainingGas, db, file)
    ELSE IF readOnly
    THEN Result("WriteProtection", <<>>, g.remainingGas, db, file)
    ELSE IF ~IsAdmin(teleporterGetAllowListStatus(db, precompileAddr, callerAddr))
    THEN Result("Unauthorized", <<>>, g.remainingGas, db, file)
    ELSE Result("nil", <<>>, g.remainingGas,
                teleporterSetAllowListRole(
                    teleporterSetAllowListRole(db, precompileAddr, callerAddr, role),
                    precompileAddr, BytesToAddress(input), role),
                file)

\* variant of the role setter that lets any caller set its own role
RoleSetterAllowsOwnRole(precompileAddr, role, db, file, callerAddr, input, suppliedGas, readOnly) ==
    LET g == deductGas(suppliedGas, ModifyAllowListGasCost) IN
    IF g.err # "nil" THEN Result("OutOfGas", <<>>, 0, db, file)
    ELSE IF Len(input) # HashLength
    THEN Result("MalformedInput", <<>>, g.remainingGas, db, file)
    ELSE IF readOnly
    THEN Result("WriteProtection", <<>>, g.remainingGas, db, file)
    ELSE IF /\ ~IsAdmin(teleporterGetAllowListStatus(db, precompileAddr, callerAddr))
            /\ BytesToAddress(input) # callerAddr
    THEN Result("Unauthorized", <<>>, g.remainingGas, db, file)
    ELSE Result("nil", <<>>, g.remainingGas,
                teleporterSetAllowListRole(db, precompileAddr, BytesToAddress(input), role),
                file)

\* variant of the role setter that authorizes every caller while the resource
\* has no Admin
RoleSetterOpenWithoutAdmin(precompileAddr, role, db, file, callerAddr, input, suppliedGas, readOnly) ==
    LET g == deductGas(suppliedGas, ModifyAllowListGasCost) IN
    IF g.err # "nil" THEN Result("OutOfGas", <<>>, 0, db, file)
    ELSE IF Len(input) # HashLength
    THEN Result("MalformedInput", <<>>, g.remainingGas, db, file)
    ELSE IF readOnly
    THEN Result("WriteProtection", <<>>, g.remainingGas, db, file)
    ELSE IF /\ ~IsAdmin(teleporterGetAllowListStatus(db, precompileAddr, callerAddr))
            /\ \E a \in Accounts : IsAdmin(teleporterGetAllowListStatus(db, precompileAddr, a))
    THEN Result("Unauthorized", <<>>, g.remainingGas, db, file)
    ELSE Result("nil", <<>>, g.remainingGas,
                teleporterSetAllowListRole(db, precompileAddr, BytesToAddress(input), role),
                file)

\* the execution function teleporterCreateAllowListRoleSetter(precompileAddr, role)
\* returns, applied to one call
teleporterCreateAllowListRoleSetter(precompileAddr, role, db, file, callerAddr, input, suppliedGas, readOnly) ==
    LET g == deductGas(suppliedGas, ModifyAllowListGasCost) IN
    IF g.err # "nil" THEN Result("OutOfGas", <<>>, 0, db, file)
    ELSE IF Len(input) # HashLength
    THEN Result("MalformedInput", <<>>, g.remainingGas, db, file)
    ELSE IF readOnly
    THEN Result("WriteProtection", <<>>, g.remainingGas, db, file)
    ELSE IF ~IsAdmin(teleporterGetAllowListStatus(db, precompileAddr, callerAddr))
    THEN Result("Unauthorized", <<>>, g.remainingGas, db, file)
    ELSE Result("nil", <<>>, g.remainingGas,
                teleporterSetAllowListRole(db, precompileAddr, BytesToAddress(input), role),
                file)

\* variant of the reading handlers that rejects a payload whose leading 12
\* bytes are not zero
ReadHandlerStrictPadding(outString, precompileAddr, db, file, callerAddr, input, suppliedGas, readOnly, fsOk) ==
    IF ~fsOk THEN Result("panic", <<>>, 0, db, file)
    ELSE
        LET written == Append(file, outString)
            g == deductGas(suppliedGas, ReadAllowListGasCost)
        IN  IF g.err # "nil" THEN Result("OutOfGas", <<>>, 0, db, written)
            ELSE IF \/ Len(input) # HashLength
                    \/ SubSeq(input, 1, HashLength - AddressLength)
                           # Zeros(HashLength - AddressLength)
            THEN Result("MalformedInput", <<>>, g.remainingGas, db, written)
            ELSE Result("nil",
                        teleporterGetAllowListStatus(db, precompileAddr, BytesToAddress(input)),
                        g.remainingGas, db, written)

\* the body shared by the two reading handlers: append outString to
\* test_precompile_output.txt (a failure to open or to write panics), then
\* deduct gas, validate the payload and read the role word
ReadHandler(outString, precompileAddr, db, file, callerAddr, input, suppliedGas, readOnly, fsOk) ==
    IF ~fsOk THEN Result("panic", <<>>, 0, db, file)
    ELSE
        LET written == Append(file, outString)
            g == deductGas(suppliedGas, ReadAllowListGasCost)
        IN  IF g.err # "nil" THEN Result("OutOfGas", <<>>, 0, db, written)
            ELSE IF Len(input) # HashLength
            THEN Result("MalformedInput", <<>>, g.remainingGas, db, written)
            ELSE Result("nil",
                        teleporterGetAllowListStatus(db, precompileAddr, BytesToAddress(input)),
                        g.remainingGas, db, written)

\* the execution function of readAllowList(address)
teleporterCreateReadAllowList(precompileAddr, db, file, callerAddr, input, suppliedGas, readOnly, fsOk) ==
    ReadHandler("test", precompileAddr, db, file, callerAddr, input, suppliedGas, readOnly, fsOk)

\* the execution function of testFunction(address)
createTestFunction(precompileAddr, db, file, callerAddr, input, suppliedGas, readOnly, fsOk) ==
    ReadHandler("test 1", precompileAddr, db, file, callerAddr, input, suppliedGas, readOnly, fsOk)

\* variant of the function table that builds every setter with the Admin role
SetterRoleAlwaysAdmin(name) == TeleporterAllowListAdmin

\* the role each role-setting function of teleporterCreateAllowListFunctions
\* (teleporter_allow_list.go) is built with
SetterRole(name) ==
    CASE name = "setAdmin" -> TeleporterAllowListAdmin
      [] name = "setEnabled" -> TeleporterAllowListEnabled
      [] name = "setNone" -> TeleporterAllowListNoRole

SetterNames == {"setAdmin", "setEnabled", "setNone"}
ReaderNames == {"readAllowList", "testFunction"}

(* ------------------------------ dispatch ------------------------------ *)

\* width of a function selector
selectorLen == 4

\* CalculateFunctionSelector: the first four bytes of the Keccak-256 hash of
\* the function signature
CalculateFunctionSelector(functionSignature) ==
    CASE functionSignature = "setAdmin(address)" -> <<112, 75, 108, 2>>
      [] functionSignature = "setEnabled(address)" -> <<10, 175, 112, 67>>
      [] functionSignature = "setNone(address)" -> <<140, 107, 251, 59>>
      [] functionSignature = "readAllowList(address)" -> <<235, 84, 218, 225>>
      [] functionSignature = "testFunction(address)" -> <<17, 126, 80, 200>>
      [] functionSignature = "transfer(address,uint256)" -> <<169, 5, 156, 187>>

setAdminSignature == CalculateFunctionSelector("setAdmin(address)")
setEnabledSignature == CalculateFunctionSelector("setEnabled(address)")
setNoneSignature == CalculateFunctionSelector("setNone(address)")
readAllowListSignature == CalculateFunctionSelector("readAllowList(address)")
testFunctionSignature == CalculateFunctionSelector("testFunction(address)")

\* newStatefulPrecompileFunction: a selector and the name of the execution
\* function registered under it
newStatefulPrecompileFunction(selector, execute) ==
    [selector |-> selector, execute |-> execute]

\* variant of the Teleporter function table that registers the allow-list
\* functions beside testFunction
TeleporterFunctionsWithAllowList ==
    {newStatefulPrecompileFunction(testFunctionSignature, "testFunction"),
     newStatefulPrecompileFunction(setAdminSignature, "setAdmin"),
     newStatefulPrecompileFunction(setEnabledSignature, "setEnabled"),
     newStatefulPrecompileFunction(setNoneSignature, "setNone"),
     newStatefulPrecompileFunction(readAllowListSignature, "readAllowList")}

\* teleporterCreateAllowListFunctions of teleporter.go: the function table of
\* the Teleporter precompile
teleporterCreateAllowListFunctions ==
    {newStatefulPrecompileFunction(testFunctionSignature, "testFunction")}

\* teleporterCreateAllowListFunctions of teleporter_allow_list.go: the
\* function table of the contract deployer allow list
teleporterCreateAllowListFunctionsOfAllowList ==
    {newStatefulPrecompileFunction(setAdminSignature, "setAdmin"),
     newStatefulPrecompileFunction(setEnabledSignature, "setEnabled"),
     newStatefulPrecompileFunction(setNoneSignature, "setNone"),
     newStatefulPrecompileFunction(readAllowListSignature, "readAllowList")}

\* newStatefulPrecompileWithFunctionSelectors: a contract is its fallback
\* ("nil" when it has none) and its function table
newStatefulPrecompileWithFunctionSelectors(fallback, functions) ==
    [fallback |-> fallback, functions |-> functions]

\* variant of the constructor that installs testFunction as the fallback
PrecompileWithFallback(precompileAddr) ==
    newStatefulPrecompileWithFunctionSelectors(
        "testFunction",
        IF precompileAddr = TeleporterAddress
        THEN teleporterCreateAllowListFunctions
        ELSE teleporterCreateAllowListFunctionsOfAllowList)

\* teleporterCreateAllowListPrecompile: the contract at precompileAddr, built
\* with no fallback function
teleporterCreateAllowListPrecompile(precompileAddr) ==
    newStatefulPrecompileWithFunctionSelectors(
        "nil",
        IF precompileAddr = TeleporterAddress
        THEN teleporterCreateAllowListFunctions
        ELSE teleporterCreateAllowListFunctionsOfAllowList)

\* the execution function registered under a name, applied to one call
Execute(execute, precompileAddr, db, file, callerAddr, input, suppliedGas, readOnly, fsOk) ==
    CASE execute \in SetterNames ->
             teleporterCreateAllowListRoleSetter(precompileAddr, SetterRole(execute),
                 db, file, callerAddr, input, suppliedGas, readOnly)
      [] execute = "readAllowList" ->
             teleporterCreateReadAllowList(precompileAddr,
                 db, file, callerAddr, input, suppliedGas, readOnly, fsOk)
      [] execute = "testFunction" ->
             createTestFunction(precompileAddr,
                 db, file, callerAddr, input, suppliedGas, readOnly, fsOk)

\* Run of a contract with function selectors: an input shorter than a
\* selector, or one whose first four bytes are registered for no function, goes
\* to the fallback, and fails when there is none; otherwise the function
\* registered under the selector runs on the input after the selector
Run(contract, precompileAddr, db, file, callerAddr, input, suppliedGas, readOnly, fsOk) ==
    LET matched ==
            IF Len(input) < selectorLen THEN {}
            ELSE {f \in contract.functions : f.selector = SubSeq(input, 1, selectorLen)}
    IN  IF matched = {}
        THEN IF contract.fallback = "nil"
             THEN Result("UnknownSelector", <<>>, suppliedGas, db, file)
             ELSE Execute(contract.fallback, precompileAddr, db, file, callerAddr,
                          input, suppliedGas, readOnly, fsOk)
        ELSE Execute((CHOOSE f \in matched : TRUE).execute, precompileAddr, db, file,
                     callerAddr, SubSeq(input, selectorLen + 1, Len(input)),
                     suppliedGas, readOnly, fsOk)

(* ------------------------- call envelope codec ------------------------ *)

\* variant of TeleporterPackReadAllowList that appends the 20 address bytes
\* without padding them
PackReadAllowListUnpadded(address) == readAllowListSignature \o address

\* TeleporterPackReadAllowList
TeleporterPackReadAllowList(address) ==
    readAllowListSignature \o AddressHash(address)

\* TeleporterPackModifyAllowList: the role picks the selector and is not
\* packed itself; a role that is none of the three is an error
TeleporterPackModifyAllowList(address, role) ==
    CASE role = TeleporterAllowListAdmin ->
             [input |-> setAdminSignature \o AddressHash(address), err |-> "nil"]
      [] role = TeleporterAllowListEnabled ->
             [input |-> setEnabledSignature \o AddressHash(address), err |-> "nil"]
      [] role = TeleporterAllowListNoRole ->
             [input |-> setNoneSignature \o AddressHash(address), err |-> "nil"]
      [] OTHER -> [input |-> <<>>, err |-> "invalid role"]

(* --------------------------- upgrade configs -------------------------- *)

TeleporterConfigKind == "TeleporterConfig"
DeployerConfigKind == "TeleporterContractDeployerAllowListConfig"

Config(kind, blockTimestamp, disable, admins) ==
    [kind |-> kind, BlockTimestamp |-> blockTimestamp, Disable |-> disable,
     AllowListAdmins |-> admins]

\* variant of the enabling constructor that sets the disable flag
NewTeleporterConfigDisabled(blockTimestamp, admins) ==
    Config(TeleporterConfigKind, blockTimestamp, TRUE, admins)

NewTeleporterConfig(blockTimestamp, admins) ==
    Config(TeleporterConfigKind, blockTimestamp, FALSE, admins)

\* variant of the disabling constructor that carries a default admin
NewDisableConfigWithAdmin(blockTimestamp) ==
    Config(TeleporterConfigKind, blockTimestamp, TRUE, <<Account(1)>>)

NewDisableTeleporterConfig(blockTimestamp) ==
    Config(TeleporterConfigKind, blockTimestamp, TRUE, <<>>)

NewTeleporterContractDeployerAllowListConfig(blockTimestamp, admins) ==
    Config(DeployerConfigKind, blockTimestamp, FALSE, admins)

NewDisableTeleporterContractDeployerAllowListConfig(blockTimestamp) ==
    Config(DeployerConfigKind, blockTimestamp, TRUE, <<>>)

\* Address(): the resource a config kind seeds
ConfigAddress(c) ==
    IF c.kind = TeleporterConfigKind
    THEN TeleporterAddress
    ELSE TeleporterContractDeployerAllowListAddress

RECURSIVE ConfigureFrom(_, _, _, _)
\* the range loop of Configure from index i on
ConfigureFrom(i, admins, db, precompileAddr) ==
    IF i > Len(admins) THEN db
    ELSE ConfigureFrom(i + 1, admins,
                       teleporterSetAllowListRole(db, precompileAddr, admins[i],
                                                  TeleporterAllowListAdmin),
                       precompileAddr)

\* variant of Configure whose loop starts at the second admin
ConfigureSkipsFirst(admins, db, precompileAddr) ==
    ConfigureFrom(2, admins, db, precompileAddr)

\* variant of Configure whose loop ends after the first admin
ConfigureFirstAdminOnly(admins, db, precompileAddr) ==
    IF admins = <<>> THEN db
    ELSE teleporterSetAllowListRole(db, precompileAddr, admins[1], TeleporterAllowListAdmin)

\* TeleporterAllowListConfig.Configure
AllowListConfigure(admins, db, precompileAddr) ==
    ConfigureFrom(1, admins, db, precompileAddr)

\* TeleporterConfig.Configure and TeleporterContractDeployerAllowListConfig.Configure
Configure(c, db) == AllowListConfigure(c.AllowListAdmins, db, ConfigAddress(c))

\* a nil *TeleporterAllowListConfig
NilAllowListConfig == [nil |-> TRUE]

\* &other.TeleporterAllowListConfig: a pointer to the admin-list part of a config
AllowListConfigOf(c) == [AllowListAdmins |-> c.AllowListAdmins]

RECURSIVE AdminsEqualFrom(_, _, _)
\* the comparison loop of TeleporterAllowListConfig.Equal from index i on
AdminsEqualFrom(i, a, b) ==
    IF i > Len(a) THEN TRUE
    ELSE IF a[i] # b[i] THEN FALSE
    ELSE AdminsEqualFrom(i + 1, a, b)

\* variant of the admin-list comparison that compares the lists as sets
AllowListEqualAsSets(admins, other) ==
    /\ other # NilAllowListConfig
    /\ {admins[i] : i \in 1..Len(admins)}
           = {other.AllowListAdmins[i] : i \in 1..Len(other.AllowListAdmins)}

\* TeleporterAllowListConfig.Equal; other is a pointer, nil or to an
\* admin-list config
AllowListEqual(admins, other) ==
    IF other = NilAllowListConfig THEN FALSE
    ELSE IF Len(admins) # Len(other.AllowListAdmins) THEN FALSE
    ELSE AdminsEqualFrom(1, admins, other.AllowListAdmins)

\* UpgradeableConfig.Equal
UpgradeableEqual(c, other) ==
    c.Disable = other.Disable /\ c.BlockTimestamp = other.BlockTimestamp

\* variant of Equal without the type assertion
EqualWithoutTypeAssertion(c, s) ==
    UpgradeableEqual(c, s) /\ AllowListEqual(c.AllowListAdmins, AllowListConfigOf(s))

\* TeleporterConfig.Equal and TeleporterContractDeployerAllowListConfig.Equal:
\* the type assertion, then the two embedded comparisons
Equal(c, s) ==
    IF s.kind # c.kind THEN FALSE
    ELSE UpgradeableEqual(c, s) /\ AllowListEqual(c.AllowListAdmins, AllowListConfigOf(s))

(* ------------------------------- inputs ------------------------------- *)

\* left-zero-padded 32-byte payload naming the account a
Padded(a) == AddressHash(a)

\* a 32-byte payload naming account 1 whose leading 12 bytes are not zero
DirtyPayload == [i \in 1..(HashLength - AddressLength) |-> 255] \o Account(1)

\* a 33-byte payload
LongPayload == Padded(Account(1)) \o <<0>>

Payloads == {<<>>, LongPayload, DirtyPayload} \cup {Padded(a) : a \in Accounts}

\* gas budgets around a handler's cost
GasInputs(cost) == {cost - 1, cost, cost + 1}

RECURSIVE SeqsUpTo(_, _)
\* the sequences over S of length at most n
SeqsUpTo(S, n) ==
    IF n = 0 THEN {<<>>}
    ELSE LET shorter == SeqsUpTo(S, n - 1)
         IN  shorter \cup {Append(q, x) : q \in shorter, x \in S}

AdminLists == SeqsUpTo(Accounts, MaxAdmins)
Timestamps == 0..MaxTimestamp

\* the configs the constructors build
Configs ==
    {NewTeleporterConfig(t, l) : t \in Timestamps, l \in AdminLists}
    \cup {NewDisableTeleporterConfig(t) : t \in Timestamps}
    \cup {NewTeleporterContractDeployerAllowListConfig(t, l) : t \in Timestamps, l \in AdminLists}
    \cup {NewDisableTeleporterContractDeployerAllowListConfig(t) : t \in Timestamps}

(* ------------------------------- state -------------------------------- *)

VARIABLES
    state,   \* StateDB: the stored word of every account under every resource
    file,    \* the lines of test_precompile_output.txt
    call     \* the operation the host has just run, with its arguments and results

vars == <<state, file, call>>

NoConfig == Config("none", 0, FALSE, <<>>)

\* the frame of an operation: what was asked, what came back, and the storage
\* and the file as they were when it was entered; address and role are the
\* arguments of an accessor or of a pack function
Frame(op, resource, caller, input, gas, readOnly, fsOk, res, cfg, other, equal) ==
    [op |-> op, resource |-> resource, caller |-> caller, input |-> input,
     suppliedGas |-> gas, readOnly |-> readOnly, fsOk |-> fsOk,
     err |-> res.err, ret |-> res.ret, remainingGas |-> res.remainingGas,
     cfg |-> cfg, other |-> other, equal |-> equal,
     address |-> <<>>, role |-> <<>>,
     stateBefore |-> state, fileBefore |-> file]

NoCall ==
    [op |-> "idle", resource |-> "", caller |-> <<>>, input |-> <<>>,
     suppliedGas |-> 0, readOnly |-> FALSE, fsOk |-> TRUE,
     err |-> "nil", ret |-> <<>>, remainingGas |-> 0,
     cfg |-> NoConfig, other |-> NoConfig, equal |-> FALSE,
     address |-> <<>>, role |-> <<>>,
     stateBefore |-> [r \in Resources |-> [k \in Slots |-> 0]],
     fileBefore |-> <<>>]

Init ==
    /\ state = [r \in Resources |-> [k \in Slots |-> 0]]
    /\ file = <<>>
    /\ call = NoCall

\* the host runs one operation at a time: a new one starts when no frame is
\* open (the guard of every operation in Next)
Idle == call.op = "idle"

\* a call of setAdmin, setEnabled or setNone on the contract deployer allow list
CallRoleSetter(name, caller, input, gas, readOnly) ==
    /\ Idle
    /\ LET res == teleporterCreateAllowListRoleSetter(
                      TeleporterContractDeployerAllowListAddress, SetterRole(name),
                      state, file, caller, input, gas, readOnly)
       IN  /\ state' = res.db
           /\ file' = res.file
           /\ call' = Frame(name, TeleporterContractDeployerAllowListAddress, caller,
                            input, gas, readOnly, TRUE, res, NoConfig, NoConfig, FALSE)

\* a call of readAllowList on the contract deployer allow list
CallReadAllowList(caller, input, gas, readOnly, fsOk) ==
    /\ Idle
    /\ fsOk => Len(file) < MaxFileLines
    /\ LET res == teleporterCreateReadAllowList(
                      TeleporterContractDeployerAllowListAddress,
                      state, file, caller, input, gas, readOnly, fsOk)
       IN  /\ state' = res.db
           /\ file' = res.file
           /\ call' = Frame("readAllowList", TeleporterContractDeployerAllowListAddress,
                            caller, input, gas, readOnly, fsOk, res, NoConfig, NoConfig, FALSE)

\* a call of testFunction on the Teleporter precompile
CallTestFunction(caller, input, gas, readOnly, fsOk) ==
    /\ Idle
    /\ fsOk => Len(file) < MaxFileLines
    /\ LET res == createTestFunction(
                      TeleporterAddress,
                      state, file, caller, input, gas, readOnly, fsOk)
       IN  /\ state' = res.db
           /\ file' = res.file
           /\ call' = Frame("testFunction", TeleporterAddress,
                            caller, input, gas, readOnly, fsOk, res, NoConfig, NoConfig, FALSE)

\* the chain-configuration loader applies an upgrade config
ApplyConfigure(c) ==
    /\ Idle
    /\ state' = Configure(c, state)
    /\ file' = file
    /\ call' = Frame("Configure", ConfigAddress(c), <<>>, <<>>, 0, FALSE, TRUE,
                     Result("nil", <<>>, 0, state, file), c, NoConfig, FALSE)

\* the host takes the results of the operation; the next one may start
HostReturn ==
    /\ ~Idle
    /\ call' = NoCall
    /\ UNCHANGED <<state, file>>

Next ==
    \/ /\ Idle
       /\ \E name \in SetterNames, caller \in Accounts, input \in Payloads,
             gas \in GasInputs(ModifyAllowListGasCost), readOnly \in BOOLEAN :
               CallRoleSetter(name, caller, input, gas, readOnly)
    \/ /\ Idle
       /\ \E caller \in Accounts, input \in Payloads,
             gas \in GasInputs(ReadAllowListGasCost), readOnly \in BOOLEAN, fsOk \in BOOLEAN :
               CallReadAllowList(caller, input, gas, readOnly, fsOk)
    \/ /\ Idle
       /\ \E caller \in Accounts, input \in Payloads,
             gas \in GasInputs(ReadAllowListGasCost), readOnly \in BOOLEAN, fsOk \in BOOLEAN :
               CallTestFunction(caller, input, gas, readOnly, fsOk)
    \/ /\ Idle
       /\ \E c \in Configs : ApplyConfigure(c)
    \/ HostReturn

Spec == Init /\ [][Next]_vars

\* the reconciliation logic compares two upgrade configs
CompareConfigs(c, s) ==
    /\ Idle
    /\ call' = Frame("Equal", ConfigAddress(c), <<>>, <<>>, 0, FALSE, TRUE,
                     Result("nil", <<>>, 0, state, file), c, s, Equal(c, s))
    /\ UNCHANGED <<state, file>>

\* the pointers an admin-list comparison is given
AllowListPointers == {NilAllowListConfig} \cup {AllowListConfigOf(s) : s \in Configs}

\* a call of TeleporterAllowListConfig.Equal on the admin-list part of c
CompareAllowLists(c, other) ==
    /\ Idle
    /\ call' = [NoCall EXCEPT !.op = "AllowListEqual", !.resource = ConfigAddress(c),
                              !.cfg = c, !.other = other,
                              !.equal = AllowListEqual(c.AllowListAdmins, other),
                              !.stateBefore = state, !.fileBefore = file]
    /\ UNCHANGED <<state, file>>

EqualNext ==
    \/ /\ Idle
       /\ \E c \in Configs, s \in Configs : CompareConfigs(c, s)
    \/ /\ Idle
       /\ \E c \in Configs, other \in AllowListPointers : CompareAllowLists(c, other)
    \/ HostReturn

EqualSpec == Init /\ [][EqualNext]_vars

(* ------------------ calls through the contracts' Run ------------------ *)

\* a selector registered in neither function table
unknownSignature == CalculateFunctionSelector("transfer(address,uint256)")

\* the three roles
Roles == {TeleporterAllowListNoRole, TeleporterAllowListEnabled, TeleporterAllowListAdmin}

\* the call data a client builds with the pack functions
PackedCalls ==
    {TeleporterPackModifyAllowList(a, r).input : a \in Accounts, r \in Roles}
    \cup {TeleporterPackReadAllowList(a) : a \in Accounts}

\* call data: packed calls, testFunction calls, a call of an unregistered
\* selector, bare selectors without a payload, and inputs shorter than a
\* selector
Calldatas ==
    PackedCalls
    \cup {testFunctionSignature \o Padded(a) : a \in Accounts}
    \cup {unknownSignature \o Padded(Account(1))}
    \cup {setAdminSignature, readAllowListSignature, testFunctionSignature}
    \cup {<<>>, SubSeq(testFunctionSignature, 1, selectorLen - 1)}

\* a budget too small for every handler and one that pays for every handler
DispatchGas == {ReadAllowListGasCost - 1, ModifyAllowListGasCost}

\* a call of the precompile at precompileAddr with the call data input
CallPrecompile(precompileAddr, caller, input, gas, readOnly, fsOk) ==
    /\ Idle
    /\ fsOk => Len(file) < MaxFileLines
    /\ LET res == Run(teleporterCreateAllowListPrecompile(precompileAddr), precompileAddr,
                      state, file, caller, input, gas, readOnly, fsOk)
       IN  /\ state' = res.db
           /\ file' = res.file
           /\ call' = Frame("Run", precompileAddr, caller, input, gas, readOnly, fsOk,
                            res, NoConfig, NoConfig, FALSE)

DispatchNext ==
    \/ /\ Idle
       /\ \E precompileAddr \in Resources, caller \in Accounts, input \in Calldatas,
             gas \in DispatchGas, readOnly \in BOOLEAN, fsOk \in BOOLEAN :
               CallPrecompile(precompileAddr, caller, input, gas, readOnly, fsOk)
    \/ /\ Idle
       /\ \E c \in Configs : ApplyConfigure(c)
    \/ HostReturn

DispatchSpec == Init /\ [][DispatchNext]_vars

(* ------------------------- packing and unpacking ---------------------- *)

ByteValues == {0, 1, 255}

\* addresses whose first, second and last byte range over ByteValues
PackAddresses ==
    {<<x, y>> \o Zeros(AddressLength - 3) \o <<z>> : x \in ByteValues, y \in ByteValues, z \in ByteValues}

\* a word that is none of the three roles
InvalidRole == BigToHash(3)

RoleWords == Roles \cup {InvalidRole}

\* what a handler makes of packed call data once Run has taken the selector
\* off: the address of a 32-byte payload
UnpackAfterSelector(packed) ==
    LET functionInput == SubSeq(packed, selectorLen + 1, Len(packed))
    IN  IF Len(functionInput) = HashLength THEN BytesToAddress(functionInput) ELSE <<>>

\* a client packs a role-setting call for address; the frame keeps the packed
\* bytes as input and the address unpacked from them as ret
PackModifyAllowList(address, role) ==
    /\ Idle
    /\ LET packed == TeleporterPackModifyAllowList(address, role)
       IN  call' = [NoCall EXCEPT !.op = "PackModifyAllowList",
                                  !.address = address, !.role = role,
                                  !.input = packed.input, !.err = packed.err,
                                  !.ret = IF packed.err = "nil"
                                          THEN UnpackAfterSelector(packed.input)
                                          ELSE <<>>,
                                  !.stateBefore = state, !.fileBefore = file]
    /\ UNCHANGED <<state, file>>

\* a client packs a readAllowList call for address
PackReadAllowList(address) ==
    /\ Idle
    /\ LET packed == TeleporterPackReadAllowList(address)
       IN  call' = [NoCall EXCEPT !.op = "PackReadAllowList",
                                  !.address = address,
                                  !.input = packed,
                                  !.ret = UnpackAfterSelector(packed),
                                  !.stateBefore = state, !.fileBefore = file]
    /\ UNCHANGED <<state, file>>

PackNext ==
    \/ /\ Idle
       /\ \E address \in PackAddresses, role \in RoleWords : PackModifyAllowList(address, role)
    \/ /\ Idle
       /\ \E address \in PackAddresses : PackReadAllowList(address)
    \/ HostReturn

PackSpec == Init /\ [][PackNext]_vars

(* ---------------------- the role tables' accessors -------------------- *)

\* other precompile code writes a role with the accessor of a resource
SetStatus(precompileAddr, address, role) ==
    /\ Idle
    /\ state' = IF precompileAddr = TeleporterAddress
                THEN SetTeleporterStatus(state, address, role)
                ELSE SetTeleporterContractDeployerAllowListStatus(state, address, role)
    /\ file' = file
    /\ call' = [NoCall EXCEPT !.op = "SetStatus", !.resource = precompileAddr,
                              !.address = address, !.role = role,
                              !.stateBefore = state, !.fileBefore = file]

\* other precompile code reads a role with the accessor of a resource
GetStatus(precompileAddr, address) ==
    /\ Idle
    /\ call' = [NoCall EXCEPT !.op = "GetStatus", !.resource = precompileAddr,
                              !.address = address,
                              !.ret = IF precompileAddr = TeleporterAddress
                                      THEN GetTeleporterStatus(state, address)
                                      ELSE GetTeleporterContractDeployerAllowListStatus(state, address),
                              !.stateBefore = state, !.fileBefore = file]
    /\ UNCHANGED <<state, file>>

\* the configs activated at timestamp 0
StoreConfigs == {c \in Configs : c.BlockTimestamp = 0}

\* the accessors next to the handlers and Configure; the handlers are called
\* with their exact cost, a padded payload and outside a static call
StoreNext ==
    \/ /\ Idle
       /\ \E precompileAddr \in Resources, address \in Accounts, role \in RoleWords :
               SetStatus(precompileAddr, address, role)
    \/ /\ Idle
       /\ \E precompileAddr \in Resources, address \in Accounts :
               GetStatus(precompileAddr, address)
    \/ /\ Idle
       /\ \E name \in SetterNames, caller \in Accounts, a \in Accounts :
               CallRoleSetter(name, caller, Padded(a), ModifyAllowListGasCost, FALSE)
    \/ /\ Idle
       /\ \E caller \in Accounts, a \in Accounts, fsOk \in BOOLEAN :
               CallTestFunction(caller, Padded(a), ReadAllowListGasCost, FALSE, fsOk)
    \/ /\ Idle
       /\ \E c \in StoreConfigs : ApplyConfigure(c)
    \/ HostReturn

StoreSpec == Init /\ [][StoreNext]_vars

(* --------------------- construction of upgrade configs ---------------- *)

\* the frame of a constructor call: the config it returned
Constructed(op, c) ==
    /\ Idle
    /\ call' = [NoCall EXCEPT !.op = op, !.resource = ConfigAddress(c), !.cfg = c,
                              !.stateBefore = state, !.fileBefore = file]
    /\ UNCHANGED <<state, file>>

CallNewTeleporterConfig(blockTimestamp, admins) ==
    Constructed("NewTeleporterConfig", NewTeleporterConfig(blockTimestamp, admins))

CallNewDisableTeleporterConfig(blockTimestamp) ==
    Constructed("NewDisableTeleporterConfig", NewDisableTeleporterConfig(blockTimestamp))

CallNewTeleporterContractDeployerAllowListConfig(blockTimestamp, admins) ==
    Constructed("NewTeleporterContractDeployerAllowListConfig",
                NewTeleporterContractDeployerAllowListConfig(blockTimestamp, admins))

CallNewDisableTeleporterContractDeployerAllowListConfig(blockTimestamp) ==
    Constructed("NewDisableTeleporterContractDeployerAllowListConfig",
                NewDisableTeleporterContractDeployerAllowListConfig(blockTimestamp))

ConstructorNames ==
    {"NewTeleporterConfig", "NewDisableTeleporterConfig",
     "NewTeleporterContractDeployerAllowListConfig",
     "NewDisableTeleporterContractDeployerAllowListConfig"}

\* the config just constructed is applied to the storage
ConfigureConstructed ==
    /\ call.op \in ConstructorNames
    /\ state' = Configure(call.cfg, state)
    /\ file' = file
    /\ call' = Frame("Configure", ConfigAddress(call.cfg), <<>>, <<>>, 0, FALSE, TRUE,
                     Result("nil", <<>>, 0, state, file), call.cfg, NoConfig, FALSE)

ConstructNext ==
    \/ /\ Idle
       /\ \E t \in Timestamps, l \in AdminLists : CallNewTeleporterConfig(t, l)
    \/ /\ Idle
       /\ \E t \in Timestamps : CallNewDisableTeleporterConfig(t)
    \/ /\ Idle
       /\ \E t \in Timestamps, l \in AdminLists :
               CallNewTeleporterContractDeployerAllowListConfig(t, l)
    \/ /\ Idle
       /\ \E t \in Timestamps : CallNewDisableTeleporterContractDeployerAllowListConfig(t)
    \/ ConfigureConstructed
    \/ HostReturn

ConstructSpec == Init /\ [][ConstructNext]_vars

(* ------------------------- vocabulary of the claims ------------------- *)

\* the numbers the three canonical role words encode
NoRoleWord == 0
EnabledWord == 1
AdminWord == 2

\* the word stored for account a under resource r in the storage db
RoleIn(db, r, a) == db[r][a[20]]

SetterCall == call.op \in {"setAdmin", "setEnabled", "setNone"}
ReaderCall == call.op \in {"readAllowList", "testFunction"}

\* the fixed cost of the handler that ran
HandlerCost == IF SetterCall THEN ModifyAllowListGasCost ELSE ReadAllowListGasCost

SufficientGas == call.suppliedGas >= HandlerCost
WellFormed == Len(call.input) = 32

\* the caller's role when the call was entered
CallerRoleBefore == RoleIn(call.stateBefore, call.resource, call.caller)

\* the account a 32-byte payload names: its low 20 bytes
NamedAccount == SubSeq(call.input, 13, 32)

\* the role the handler that ran is meant to write
WrittenRole ==
    CASE call.op = "setAdmin" -> AdminWord
      [] call.op = "setEnabled" -> EnabledWord
      [] call.op = "setNone" -> NoRoleWord

RolesUnchanged == state = call.stateBefore

(* -------------------------------- C1 ---------------------------------- *)

\* C1 as stated: a setAdmin, setEnabled or setNone call whose caller does not
\* hold Admin always fails with Unauthorized and changes no role.
C1_NonAdminAlwaysUnauthorized ==
    (SetterCall /\ CallerRoleBefore # AdminWord)
        => (call.err = "Unauthorized" /\ RolesUnchanged)

\* C1 amended: such a call always fails and changes no role; the failure is
\* Unauthorized when the call has enough gas, a 32-byte payload and is not
\* read-only, and the failure of the earliest failing step otherwise.
C1_NonAdminRejected ==
    (SetterCall /\ CallerRoleBefore # AdminWord)
        => /\ RolesUnchanged
           /\ call.err # "nil"
           /\ (SufficientGas /\ WellFormed /\ ~call.readOnly) => call.err = "Unauthorized"
           /\ ~SufficientGas => call.err = "OutOfGas"
           /\ (SufficientGas /\ ~WellFormed) => call.err = "MalformedInput"
           /\ (SufficientGas /\ WellFormed /\ call.readOnly) => call.err = "WriteProtection"

\* an Enabled caller asked setAdmin for another account and was refused
C1_Witness ==
    /\ call.op = "setAdmin"
    /\ CallerRoleBefore = EnabledWord
    /\ WellFormed /\ NamedAccount # call.caller
    /\ call.err = "Unauthorized"

(* -------------------------------- C2 ---------------------------------- *)

\* C2 as stated: a role-setting call made read-only always fails with
\* WriteProtection, whatever the caller's role, and writes nothing.
C2_ReadOnlyAlwaysWriteProtection ==
    (SetterCall /\ call.readOnly)
        => (call.err = "WriteProtection" /\ RolesUnchanged)

\* C2 amended: such a call always fails and writes nothing; the failure is
\* WriteProtection, whatever the caller's role, when the call has enough gas
\* and a 32-byte payload, OutOfGas with too little gas, and MalformedInput
\* with enough gas and a payload of another length.
C2_ReadOnlyRejected ==
    (SetterCall /\ call.readOnly)
        => /\ RolesUnchanged
           /\ call.err # "nil"
           /\ (SufficientGas /\ WellFormed) => call.err = "WriteProtection"
           /\ ~SufficientGas => call.err = "OutOfGas"
           /\ (SufficientGas /\ ~WellFormed) => call.err = "MalformedInput"

\* a read-only role-setting call of an Admin was refused with WriteProtection
C2_Witness ==
    /\ SetterCall /\ call.readOnly
    /\ CallerRoleBefore = AdminWord
    /\ call.err = "WriteProtection"

(* -------------------------------- C3 ---------------------------------- *)

\* C3: a call to a role-setting or reading handler whose payload is not
\* exactly 32 bytes long fails with MalformedInput.  Stated for the calls that
\* pay the handler's cost, the only ones the gas step lets reach the length
\* check.
C3_WrongLengthIsMalformedInput ==
    ((SetterCall \/ ReaderCall) /\ ~WellFormed /\ SufficientGas)
        => call.err = "MalformedInput"

(* -------------------------------- C4 ---------------------------------- *)

\* C4: a read call with less gas than the read cost fails with OutOfGas and
\* remaining gas 0, and nothing has been read, written or otherwise done
\* before that failure.  Stated for the calls whose diagnostic file can be
\* opened and written; the others panic before the gas step.
C4_OutOfGasReadHasNoSideEffect ==
    (ReaderCall /\ ~SufficientGas /\ call.fsOk)
        => /\ call.err = "OutOfGas"
           /\ call.remainingGas = 0
           /\ RolesUnchanged
           /\ file = call.fileBefore

(* -------------------------------- C5 ---------------------------------- *)

\* C5: every handler takes the steps gas deduction, input length, write
\* protection, authorization, effect in this order: the outcome is that of the
\* earliest failing step, and a call that fails at a step has had no effect.
C5_EarliestFailingStepWins ==
    (SetterCall \/ ReaderCall)
        => /\ ~SufficientGas => call.err = "OutOfGas"
           /\ (SufficientGas /\ ~WellFormed) => call.err = "MalformedInput"
           /\ (SetterCall /\ SufficientGas /\ WellFormed /\ call.readOnly)
                  => call.err = "WriteProtection"
           /\ (SetterCall /\ SufficientGas /\ WellFormed /\ ~call.readOnly
                   /\ CallerRoleBefore # AdminWord)
                  => call.err = "Unauthorized"
           /\ call.err # "nil" => (RolesUnchanged /\ file = call.fileBefore)

(* -------------------------------- C6 ---------------------------------- *)

\* C6: with supplied gas at least the handler's cost the remaining gas
\* returned is supplied gas minus the cost, on success and on the rejections
\* MalformedInput, WriteProtection and Unauthorized; with less gas it is 0.
C6_RemainingGas ==
    (SetterCall \/ ReaderCall)
        => /\ (SufficientGas
                 /\ call.err \in {"nil", "MalformedInput", "WriteProtection", "Unauthorized"})
                  => call.remainingGas + HandlerCost = call.suppliedGas
           /\ call.err \in {"MalformedInput", "WriteProtection", "Unauthorized"}
                  => SufficientGas
           /\ ~SufficientGas => call.remainingGas = 0

\* a refused call that had paid for more than the cost got the rest back
C6_Witness ==
    /\ SetterCall
    /\ call.err = "Unauthorized"
    /\ call.suppliedGas > HandlerCost
    /\ call.remainingGas > 0

(* -------------------------------- C7 ---------------------------------- *)

\* C7: a role-setting call from an Admin, not read-only, with enough gas and
\* a 32-byte payload succeeds with empty output, and the account the payload
\* names then holds the handler's role, whatever it held before.
C7_AdminSetsRole ==
    (SetterCall /\ CallerRoleBefore = AdminWord /\ ~call.readOnly
        /\ SufficientGas /\ WellFormed)
        => /\ call.err = "nil"
           /\ call.ret = <<>>
           /\ RoleIn(state, call.resource, NamedAccount) = WrittenRole

\* an Admin was set to Enabled by a successful setEnabled
C7_Witness ==
    /\ call.op = "setEnabled"
    /\ call.err = "nil"
    /\ RoleIn(call.stateBefore, call.resource, NamedAccount) = AdminWord
    /\ RoleIn(state, call.resource, NamedAccount) = EnabledWord

(* -------------------------------- C8 ---------------------------------- *)

\* the accounts an admin list names
AdminSet(c) == {c.AllowListAdmins[i] : i \in 1..Len(c.AllowListAdmins)}

\* C8: Configure makes every account of InitialAdmins hold Admin for the
\* config's resource and leaves every other role as it was.
C8_ConfigureSeedsAdmins ==
    (call.op = "Configure")
        => \A r \in Resources, a \in Accounts :
               RoleIn(state, r, a) =
                   IF r = call.resource /\ a \in AdminSet(call.cfg)
                   THEN AdminWord
                   ELSE RoleIn(call.stateBefore, r, a)

\* Configure raised an account from NoRole to Admin and kept another
\* account's Enabled role
C8_Witness ==
    /\ call.op = "Configure"
    /\ \E a \in AdminSet(call.cfg) :
           /\ RoleIn(call.stateBefore, call.resource, a) = NoRoleWord
           /\ RoleIn(state, call.resource, a) = AdminWord
    /\ \E b \in Accounts \ AdminSet(call.cfg) :
           RoleIn(state, call.resource, b) = EnabledWord

(* -------------------------------- C9 ---------------------------------- *)

C10_EqualIsStructural ==
    (call.op = "Equal" /\ call.cfg.kind = call.other.kind)
        => (call.equal <=>
               /\ call.cfg.BlockTimestamp = call.other.BlockTimestamp
               /\ call.cfg.Disable = call.other.Disable
               /\ call.cfg.AllowListAdmins = call.other.AllowListAdmins)

\* admin lists [X, Y] and [Y, X] with X # Y compared not equal
C10_Witness ==
    /\ call.op = "Equal" /\ call.cfg.kind = call.other.kind
    /\ call.cfg.BlockTimestamp = call.other.BlockTimestamp
    /\ call.cfg.Disable = call.other.Disable
    /\ Len(call.cfg.AllowListAdmins) = 2
    /\ call.cfg.AllowListAdmins[1] # call.cfg.AllowListAdmins[2]
    /\ call.other.AllowListAdmins
           = <<call.cfg.AllowListAdmins[2], call.cfg.AllowListAdmins[1]>>
    /\ ~call.equal

(* -------------------------------- C11 --------------------------------- *)

\* a call through a contract's Run; its input is the whole call data
DispatchCall == call.op = "Run"

\* the leading four bytes of the call data and the bytes after them
CallSelector == SubSeq(call.input, 1, 4)
CallPayload == SubSeq(call.input, 5, Len(call.input))

\* the handler a resource has under a selector, "none" when it has none
HandlerUnder(resource, selector) ==
    IF resource = TeleporterAddress
    THEN IF selector = testFunctionSignature THEN "testFunction" ELSE "none"
    ELSE CASE selector = setAdminSignature -> "setAdmin"
           [] selector = setEnabledSignature -> "setEnabled"
           [] selector = setNoneSignature -> "setNone"
           [] selector = readAllowListSignature -> "readAllowList"
           [] OTHER -> "none"

\* the handler the call data selects, "none" for call data shorter than a
\* selector
Selected == IF Len(call.input) < 4 THEN "none" ELSE HandlerUnder(call.resource, CallSelector)

\* the results of the handler named execute called on the payload after the
\* selector, with the storage and the file as the call found them
OnPayload(execute) ==
    Execute(execute, call.resource, call.stateBefore, call.fileBefore, call.caller,
            CallPayload, call.suppliedGas, call.readOnly, call.fsOk)

\* C11: dispatch on a resource built without a fallback fails with unknown
\* selector for every input shorter than 4 bytes and for every input whose
\* leading 4 bytes match no registered selector, runs no handler and changes no
\* role; for a registered selector it does exactly what that selector's handler
\* does on the input with the 4 selector bytes stripped.
C11_DispatchWithoutFallback ==
    DispatchCall
        => IF Selected = "none"
           THEN /\ call.err = "UnknownSelector"
                /\ call.ret = <<>>
                /\ RolesUnchanged
                /\ file = call.fileBefore
           ELSE /\ call.err = OnPayload(Selected).err
                /\ call.ret = OnPayload(Selected).ret
                /\ call.remainingGas = OnPayload(Selected).remainingGas
                /\ state = OnPayload(Selected).db
                /\ file = OnPayload(Selected).file

\* an Admin of the Teleporter precompile called it with a packed readAllowList
\* call, a selector only the other resource has, and got unknown selector
C11_Witness ==
    /\ DispatchCall
    /\ call.resource = TeleporterAddress
    /\ Len(call.input) = 36
    /\ CallSelector = readAllowListSignature
    /\ RoleIn(call.stateBefore, call.resource, call.caller) = AdminWord
    /\ call.err = "UnknownSelector"

(* -------------------------------- C12 --------------------------------- *)

\* the 32-byte word that encodes the number n
WordOf(n) == [i \in 1..32 |-> IF i = 32 THEN n ELSE 0]

CanonicalWords == {WordOf(NoRoleWord), WordOf(EnabledWord), WordOf(AdminWord)}

\* a pack call that is given an address and, when it packs a role-setting
\* call, one of the three roles
PackCall ==
    \/ call.op = "PackReadAllowList"
    \/ call.op = "PackModifyAllowList" /\ call.role \in CanonicalWords

\* the selector of the function the packed call is for
PackedSelector ==
    IF call.op = "PackReadAllowList" THEN readAllowListSignature
    ELSE CASE call.role = WordOf(AdminWord) -> setAdminSignature
           [] call.role = WordOf(EnabledWord) -> setEnabledSignature
           [] call.role = WordOf(NoRoleWord) -> setNoneSignature

\* C12: the packed payload is always 36 bytes, the selector followed by the
\* address left-padded with zeros to 32 bytes, and stripping the 4-byte
\* selector and unpacking yields the original address exactly, for every
\* address.
C12_PackRoundTrip ==
    PackCall
        => /\ call.err = "nil"
           /\ Len(call.input) = 36
           /\ SubSeq(call.input, 1, 4) = PackedSelector
           /\ SubSeq(call.input, 5, 16) = [i \in 1..12 |-> 0]
           /\ SubSeq(call.input, 17, 36) = call.address
           /\ call.ret = call.address

\* an address whose first and last bytes are 255 was packed into a
\* readAllowList call and unpacked again
C12_Witness ==
    /\ call.op = "PackReadAllowList"
    /\ call.address[1] = 255 /\ call.address[20] = 255
    /\ Len(call.input) = 36
    /\ call.ret = call.address

(* -------------------------------- C13 --------------------------------- *)

CanonicalRoles == {NoRoleWord, EnabledWord, AdminWord}

\* C13: when the word stored for an account is none of the three canonical
\* role words, a handler reading it fails closed: a reading handler reports a
\* failure or answers NoRole, never the invalid word as a successful result,
\* and a role setter whose caller has such a word grants nothing.
C13_InvalidWordFailsClosed ==
    /\ (ReaderCall /\ WellFormed
            /\ RoleIn(call.stateBefore, call.resource, NamedAccount) \notin CanonicalRoles)
           => (call.err # "nil" \/ call.ret = WordOf(NoRoleWord))
    /\ (SetterCall /\ CallerRoleBefore \notin CanonicalRoles)
           => (call.err # "nil" /\ RolesUnchanged)

(* -------------------------------- C14 --------------------------------- *)

\* a second execution of the handler that ran, on the same caller, resource,
\* payload, gas budget, read-only flag and role table, where the diagnostic
\* file holds the lines f and the file system lets it be written iff fs
Again(f, fs) ==
    Execute(call.op, call.resource, call.stateBefore, f, call.caller,
            call.input, call.suppliedGas, call.readOnly, fs)

\* C14: a handler is a deterministic function of (caller, resource, payload,
\* gas budget, read-only flag, role table): every other execution on the same
\* values returns the same output bytes, remaining gas and outcome and leaves
\* the same role table, whatever the local file system holds or does.
C14_HandlerIsDeterministic ==
    (SetterCall \/ ReaderCall)
        => \A f \in {<<>>, call.fileBefore}, fs \in BOOLEAN :
               /\ Again(f, fs).ret = call.ret
               /\ Again(f, fs).remainingGas = call.remainingGas
               /\ Again(f, fs).err = call.err
               /\ Again(f, fs).db = state

(* -------------------------------- C15 --------------------------------- *)

\* an operation that writes roles under call.resource: a write through an
\* accessor, a successful role-setting call, a Configure
RoleWrite ==
    \/ call.op = "SetStatus"
    \/ SetterCall /\ call.err = "nil"
    \/ call.op = "Configure"

\* the caller holds Admin under a resource other than the one called
AdminElsewhere ==
    \E r \in Resources \ {call.resource} : RoleIn(call.stateBefore, r, call.caller) = AdminWord

\* C15: resources never share role state: a role write, a successful
\* role-setting call or a Configure on one resource leaves the role of every
\* account under every other resource unchanged, and a caller's Admin role on
\* one resource authorizes no mutation on another.
C15_ResourcesAreIsolated ==
    /\ RoleWrite
           => \A r \in Resources \ {call.resource}, a \in Accounts :
                  RoleIn(state, r, a) = RoleIn(call.stateBefore, r, a)
    /\ (SetterCall /\ AdminElsewhere /\ CallerRoleBefore # AdminWord)
           => (call.err # "nil" /\ RolesUnchanged)

\* an Admin of the Teleporter precompile who is Enabled on the contract deployer
\* allow list asked that list to make another account Admin and was refused
C15_Witness ==
    /\ call.op = "setAdmin"
    /\ call.resource = TeleporterContractDeployerAllowListAddress
    /\ RoleIn(call.stateBefore, TeleporterAddress, call.caller) = AdminWord
    /\ CallerRoleBefore = EnabledWord
    /\ NamedAccount # call.caller
    /\ call.err = "Unauthorized"
    /\ RolesUnchanged

(* -------------------------------- C16 --------------------------------- *)

\* set and get of the role store: the accessors of the resource
StoreSet(db, resource, a, word) ==
    IF resource = TeleporterAddress
    THEN SetTeleporterStatus(db, a, word)
    ELSE SetTeleporterContractDeployerAllowListStatus(db, a, word)

StoreGet(db, resource, a) ==
    IF resource = TeleporterAddress
    THEN GetTeleporterStatus(db, a)
    ELSE GetTeleporterContractDeployerAllowListStatus(db, a)

AllWords == CanonicalWords \cup {WordOf(3)}

\* the entries other than the one of account a under resource
OtherEntries(resource, a) ==
    {e \in Resources \X Accounts : e # <<resource, a>>}

\* C16: for every valid role r and account a, set(resource, a, r) followed by
\* get(resource, a) returns r, whatever writes to other accounts happen in
\* between: the set stores r for a and changes no other entry, a get right
\* after it, or after a write of any word to any other entry, returns r, and
\* get returns the stored word and changes nothing.
C16_SetThenGetReturnsRole ==
    /\ (call.op = "SetStatus" /\ call.role \in CanonicalWords)
           => /\ \A r \in Resources, a \in Accounts :
                     RoleIn(state, r, a) =
                         IF r = call.resource /\ a = call.address
                         THEN call.role[32]
                         ELSE RoleIn(call.stateBefore, r, a)
              /\ StoreGet(state, call.resource, call.address) = call.role
              /\ \A e \in OtherEntries(call.resource, call.address), w \in AllWords :
                     StoreGet(StoreSet(state, e[1], e[2], w),
                              call.resource, call.address) = call.role
    /\ call.op = "GetStatus"
           => /\ call.ret = WordOf(RoleIn(call.stateBefore, call.resource, call.address))
              /\ RolesUnchanged

\* get returned Enabled for an account while another account of the same
\* resource holds Admin
C16_Witness ==
    /\ call.op = "GetStatus"
    /\ call.ret = WordOf(EnabledWord)
    /\ \E b \in Accounts \ {call.address} : RoleIn(state, call.resource, b) = AdminWord

(* -------------------------------- C17 --------------------------------- *)

\* the storage before any write: no key is present
EmptyStorage == [r \in Resources |-> [k \in 1..NumAccounts |-> NoRoleWord]]

\* C17: get(resource, a) returns NoRole before any write to a and again after
\* NoRole is written to a: on the empty storage a get returns NoRole, a get
\* of an entry that is as in the empty storage returns NoRole, and writing
\* NoRole to a leaves the entry of a as it is in the empty storage, whatever it
\* held, so that the next get returns NoRole.
C17_AbsentAndClearedReadNoRole ==
    /\ call.op = "GetStatus"
           => StoreGet(EmptyStorage, call.resource, call.address) = WordOf(NoRoleWord)
    /\ (call.op = "GetStatus"
            /\ RoleIn(call.stateBefore, call.resource, call.address)
                   = RoleIn(EmptyStorage, call.resource, call.address))
           => call.ret = WordOf(NoRoleWord)
    /\ (call.op = "SetStatus" /\ call.role = WordOf(NoRoleWord))
           => /\ RoleIn(state, call.resource, call.address)
                     = RoleIn(EmptyStorage, call.resource, call.address)
              /\ StoreGet(state, call.resource, call.address) = WordOf(NoRoleWord)

\* NoRole was written to an account that held Admin: its entry is as in the
\* empty storage and reads NoRole
C17_Witness ==
    /\ call.op = "SetStatus" /\ call.role = WordOf(NoRoleWord)
    /\ RoleIn(call.stateBefore, call.resource, call.address) = AdminWord
    /\ RoleIn(state, call.resource, call.address) = NoRoleWord
    /\ StoreGet(state, call.resource, call.address) = WordOf(NoRoleWord)

(* -------------------------------- C18 --------------------------------- *)

\* the failures of a handler and of dispatch
FailureOutcomes ==
    {"OutOfGas", "MalformedInput", "WriteProtection", "Unauthorized", "UnknownSelector"}

\* C18: every failure outcome is terminal and leaves state untouched: when a
\* call returns OutOfGas, MalformedInput, WriteProtection or Unauthorized, or
\* dispatch returns unknown selector, it returns no output and the role table
\* after the call equals the role table before it.
C18_FailuresLeaveRolesUntouched ==
    call.err \in FailureOutcomes => (RolesUnchanged /\ call.ret = <<>>)

\* a packed setAdmin call for an account that is not Admin, made by a caller
\* who is not Admin either, was refused and the account's role is as before
C18_Witness ==
    /\ DispatchCall
    /\ Len(call.input) = 36 /\ CallSelector = setAdminSignature
    /\ RoleIn(call.stateBefore, call.resource, SubSeq(call.input, 17, 36)) = EnabledWord
    /\ SubSeq(call.input, 17, 36) # call.caller
    /\ call.err = "Unauthorized"
    /\ RolesUnchanged

(* -------------------------------- C19 --------------------------------- *)

\* C19: a successful role-setting call changes only the entry of the account
\* named in its payload under the handler's own resource: the role of every
\* other account, the caller's included when the caller is not the target, and
\* every role under another resource is unchanged.
C19_SetterChangesOnlyTarget ==
    (SetterCall /\ call.err = "nil")
        => \A r \in Resources, a \in Accounts :
               (r # call.resource \/ a # NamedAccount)
                   => RoleIn(state, r, a) = RoleIn(call.stateBefore, r, a)

\* an Admin cleared another account's Enabled role with setNone and is Admin
\* as before
C19_Witness ==
    /\ call.op = "setNone" /\ call.err = "nil"
    /\ NamedAccount # call.caller
    /\ RoleIn(call.stateBefore, call.resource, NamedAccount) = EnabledWord
    /\ RoleIn(state, call.resource, NamedAccount) = NoRoleWord
    /\ RoleIn(state, call.resource, call.caller) = AdminWord

(* -------------------------------- C20 --------------------------------- *)

\* C20: a reading handler call with sufficient gas and a 32-byte payload
\* succeeds for every caller, whatever its role, and in read-only and
\* non-read-only contexts alike, returns the 32-byte role word stored for the
\* account named in the payload, and never changes the role table.
C20_ReadSucceedsWithStoredWord ==
    (ReaderCall /\ SufficientGas /\ WellFormed)
        => /\ call.err = "nil"
           /\ call.ret = WordOf(RoleIn(call.stateBefore, call.resource, NamedAccount))
           /\ RolesUnchanged

(* -------------------------------- C21 --------------------------------- *)

\* the configs of the kind of c that name the same accounts as c, in any order
\* and any number of times
SameAdmins(c) ==
    {d \in Configs : d.kind = c.kind /\ AdminSet(d) = AdminSet(c)}

\* C21: Configure is idempotent and order-independent in its outcome:
\* applying the config a second time leaves the role table as the first
\* application left it, and applying to the same starting table a config whose
\* InitialAdmins are a permutation of this one's, or repeat its accounts, gives
\* the same role table.
C21_ConfigureIdempotentAnyOrder ==
    (call.op = "Configure")
        => /\ Configure(call.cfg, state) = state
           /\ \A d \in SameAdmins(call.cfg) : Configure(d, call.stateBefore) = state

\* the admin list [X, Y] with X # Y was applied to a table where X had no role
\* and Y was Enabled
C21_Witness ==
    /\ call.op = "Configure"
    /\ Len(call.cfg.AllowListAdmins) = 2
    /\ call.cfg.AllowListAdmins[1] # call.cfg.AllowListAdmins[2]
    /\ RoleIn(call.stateBefore, call.resource, call.cfg.AllowListAdmins[1]) = NoRoleWord
    /\ RoleIn(call.stateBefore, call.resource, call.cfg.AllowListAdmins[2]) = EnabledWord
    /\ \A a \in AdminSet(call.cfg) : RoleIn(state, call.resource, a) = AdminWord

(* -------------------------------- C22 --------------------------------- *)

DisablingConstructors ==
    {"NewDisableTeleporterConfig", "NewDisableTeleporterContractDeployerAllowListConfig"}

EnablingConstructors ==
    {"NewTeleporterConfig", "NewTeleporterContractDeployerAllowListConfig"}

\* C22: a config returned by a disabling constructor has Disable = true and an
\* empty admin list, a config returned by an enabling constructor has
\* Disable = false, and no constructed config, returned or applied, has
\* Disable = true together with a non-empty InitialAdmins.
C22_ConstructorsKeepIntentsExclusive ==
    /\ (call.op \in DisablingConstructors)
           => (call.cfg.Disable /\ call.cfg.AllowListAdmins = <<>>)
    /\ (call.op \in EnablingConstructors) => ~call.cfg.Disable
    /\ (call.op \in DisablingConstructors \cup EnablingConstructors \cup {"Configure"})
           => ~(call.cfg.Disable /\ call.cfg.AllowListAdmins # <<>>)

\* the enabling constructor of the Teleporter resource returned a config with
\* two admins while an earlier config had already seeded an Admin
C22_Witness ==
    /\ call.op = "NewTeleporterConfig"
    /\ Len(call.cfg.AllowListAdmins) = 2
    /\ ~call.cfg.Disable
    /\ \E a \in Accounts : RoleIn(state, call.resource, a) = AdminWord

(* -------------------------------- C23 --------------------------------- *)

\* the other admin-list config is absent
AbsentOther == call.other = [nil |-> TRUE]

\* C23: Equal answers false whenever the other config is of another kind than
\* the receiver, whatever their timestamps, disable flags and admin lists, and
\* the admin-list comparison answers false when the other admin-list config
\* is nil.
C23_EqualFailsClosed ==
    /\ (call.op = "Equal" /\ call.other.kind # call.cfg.kind) => ~call.equal
    /\ (call.op = "AllowListEqual" /\ AbsentOther) => ~call.equal

\* configs of the two kinds with the same timestamp, disable flag and
\* non-empty admin list compared not equal
C23_Witness ==
    /\ call.op = "Equal" /\ call.other.kind # call.cfg.kind
    /\ call.cfg.BlockTimestamp = call.other.BlockTimestamp
    /\ call.cfg.Disable = call.other.Disable
    /\ call.cfg.AllowListAdmins = call.other.AllowListAdmins
    /\ call.cfg.AllowListAdmins # <<>>
    /\ ~call.equal

(* -------------------------------- C24 --------------------------------- *)

\* C24: from an empty role table, after any sequence of Configure applications
\* and dispatched calls, every stored role word is one of the three canonical
\* words NoRole, Enabled and Admin: no handler and no Configure writes another
\* value.
C24_StoredWordsAreCanonical ==
    \A r \in Resources, a \in Accounts :
        /\ RoleIn(state, r, a) \in CanonicalRoles
        /\ RoleIn(call.stateBefore, r, a) \in CanonicalRoles

\* a dispatched setEnabled succeeded, and the three words are stored under the
\* resource called or the other one
C24_Witness ==
    /\ DispatchCall /\ Selected = "setEnabled" /\ call.err = "nil"
    /\ \A w \in CanonicalRoles :
           \E r \in Resources, a \in Accounts : RoleIn(state, r, a) = w

(* -------------------------------- C25 --------------------------------- *)

\* the account a dispatched call names: the low 20 bytes of its 32-byte payload
DispatchTarget == SubSeq(call.input, 17, 36)

\* a dispatched setAdmin that succeeded for a caller holding Admin when it
\* was made
AdminGrant ==
    /\ DispatchCall /\ Selected = "setAdmin" /\ call.err = "nil"
    /\ RoleIn(call.stateBefore, call.resource, call.caller) = AdminWord

\* C25: an account comes to hold Admin only by an applied config listing it in
\* InitialAdmins or as the target of a successful setAdmin whose caller held
\* Admin when the call was made (so, from the empty table, every Admin has such
\* an origin); a dispatched call whose caller holds only Enabled or NoRole
\* raises the role of no account, its own included.
C25_AdminProvenance ==
    /\ (call.op # "idle")
           => \A r \in Resources, a \in Accounts :
                  (RoleIn(state, r, a) = AdminWord /\ RoleIn(call.stateBefore, r, a) # AdminWord)
                      => \/ /\ call.op = "Configure"
                            /\ r = call.resource
                            /\ a \in AdminSet(call.cfg)
                         \/ /\ AdminGrant
                            /\ r = call.resource
                            /\ a = DispatchTarget
    /\ (DispatchCall /\ RoleIn(call.stateBefore, call.resource, call.caller) # AdminWord)
           => \A r \in Resources, a \in Accounts :
                  RoleIn(state, r, a) <= RoleIn(call.stateBefore, r, a)

\* an Admin seeded by a config made another account Admin with setAdmin
C25_Witness ==
    /\ AdminGrant
    /\ DispatchTarget # call.caller
    /\ RoleIn(call.stateBefore, call.resource, DispatchTarget) = NoRoleWord
    /\ RoleIn(state, call.resource, DispatchTarget) = AdminWord

(* -------------------------------- C26 --------------------------------- *)

\* no account held Admin under the resource called when the call was made
NoAdminBefore ==
    \A a \in Accounts : RoleIn(call.stateBefore, call.resource, a) # AdminWord

\* the call data carries the selector of setAdmin, setEnabled or setNone
RoleSettingCall ==
    /\ DispatchCall /\ Len(call.input) >= 4
    /\ CallSelector \in {setAdminSignature, setEnabledSignature, setNoneSignature}

\* the word a role-setting handler writes
RoleOf(handler) ==
    CASE handler = "setAdmin" -> AdminWord
      [] handler = "setEnabled" -> EnabledWord
      [] handler = "setNone" -> NoRoleWord

\* C26: a role-setting call of an Admin that is well-formed, paid for and not
\* read-only succeeds whatever role its target holds, the caller itself and
\* other Admins included, so a resource can lose its last Admin; and when the
\* resource called has no Admin, every role-setting call fails and no
\* dispatched call changes a role or brings an Admin back: only Configure can.
C26_AdminLockOutIsAbsorbing ==
    /\ (/\ RoleSettingCall /\ Selected # "none"
        /\ RoleIn(call.stateBefore, call.resource, call.caller) = AdminWord
        /\ Len(call.input) = 36 /\ ~call.readOnly
        /\ call.suppliedGas >= 20000)
           => /\ call.err = "nil"
              /\ RoleIn(state, call.resource, DispatchTarget) = RoleOf(Selected)
    /\ (RoleSettingCall /\ NoAdminBefore) => call.err # "nil"
    /\ (DispatchCall /\ NoAdminBefore)
           => /\ RolesUnchanged
              /\ \A a \in Accounts : RoleIn(state, call.resource, a) # AdminWord

\* a resource lost its last Admin (it still has an Enabled account, which only
\* an Admin can have made), and that account's setAdmin on itself was refused
C26_Witness ==
    /\ RoleSettingCall /\ Selected = "setAdmin" /\ NoAdminBefore
    /\ Len(call.input) = 36 /\ ~call.readOnly /\ call.suppliedGas >= 20000
    /\ DispatchTarget = call.caller
    /\ RoleIn(call.stateBefore, call.resource, call.caller) = EnabledWord
    /\ call.err = "Unauthorized"
    /\ RolesUnchanged

(* -------------------------------- C27 --------------------------------- *)

\* a dispatched call on the Teleporter resource
TeleporterCall == DispatchCall /\ call.resource = "Teleporter"

\* the call data starts with the selector of testFunction(address)
TestFunctionSelected ==
    Len(call.input) >= 4 /\ CallSelector = <<17, 126, 80, 200>>

\* the selectors the two pack functions put in front of their payload
PackSelectors ==
    {setAdminSignature, setEnabledSignature, setNoneSignature, readAllowListSignature}

\* the role table of the Teleporter resource is as the operation found it
TeleporterRolesUnchanged ==
    \A a \in Accounts :
        RoleIn(state, "Teleporter", a) = RoleIn(call.stateBefore, "Teleporter", a)

Leadings ==
    {[i \in 1..12 |-> 0], [i \in 1..12 |-> 255], [i \in 1..12 |-> IF i = 1 THEN 1 ELSE 0]}

\* the handler that ran, run on the payload p instead, everything else as the
\* call found it
WithPayload(p) ==
    Execute(call.op, call.resource, call.stateBefore, call.fileBefore, call.caller,
            p, call.suppliedGas, call.readOnly, call.fsOk)

\* C28: unpacking validates only the length of the payload: no 32-byte payload
\* is refused as malformed; the account read or modified is the one its low 20
\* bytes name; and the leading 12 bytes are ignored: the same call with other
\* leading 12 bytes has the same outcome, output and remaining gas and leaves
\* the same role table.
C28_UnpackIgnoresLeadingBytes ==
    ((SetterCall \/ ReaderCall) /\ WellFormed)
        => /\ call.err # "MalformedInput"
           /\ (SetterCall /\ call.err = "nil")
                  => /\ RoleIn(state, call.resource, NamedAccount) = WrittenRole
                     /\ \A a \in Accounts \ {NamedAccount} :
                            RoleIn(state, call.resource, a)
                                = RoleIn(call.stateBefore, call.resource, a)
           /\ (ReaderCall /\ call.err = "nil")
                  => call.ret = WordOf(RoleIn(call.stateBefore, call.resource, NamedAccount))
           /\ \A l \in Leadings :
                  LET other == WithPayload(l \o NamedAccount)
                  IN  /\ other.err = call.err
                      /\ other.ret = call.ret
                      /\ other.remainingGas = call.remainingGas
                      /\ other.db = state

\* a read with a payload whose leading 12 bytes are not zero returned the
\* Admin role of the account its low 20 bytes name
C28_Witness ==
    /\ ReaderCall /\ WellFormed /\ call.err = "nil"
    /\ SubSeq(call.input, 1, 12) = [i \in 1..12 |-> 255]
    /\ RoleIn(call.stateBefore, call.resource, NamedAccount) = AdminWord
    /\ call.ret = WordOf(AdminWord)

====
